---- MODULE Spec2Model ----
(***************************************************************************)
(* A model of size_diff.py: the per-file statistics collector (gen_stats), *)
(* the diff engine (gen_diff) and the reporter (main).                     *)
(*                                                                         *)
(* Python strings are sequences of one-character strings, so that          *)
(* startswith, strip, split, join, the ordering of str and the formatting  *)
(* of integers are computed rather than assumed.  A float density is the   *)
(* exact fraction <<num, den>> in lowest terms with den > 0.               *)
(***************************************************************************)
EXTENDS Integers, Sequences, FiniteSets, TLC

VARIABLES
    args,       \* sys.argv[1:], a sequence of directory names
    fs,         \* directory name -> (relative path -> file)
    env,        \* the environment: MAX_LINE_COUNT, set or not
    pc,         \* where main is
    base,       \* base_path of the running gen_stats call
    todo,       \* the paths base_path.rglob has not yielded yet
    stats,      \* gen_stats' local list
    old_stats,  \* main's old_stats
    new_stats,  \* main's new_stats
    table,      \* main's table
    out,        \* what was printed to standard output, in order
    exc,        \* the exception that ended the run, or "none"
    opened      \* every <<dir, path>> tokenize.open was called on, in order

vars == <<args, fs, env, pc, base, todo, stats, old_stats, new_stats, table,
          out, exc, opened>>

(***************************************************************************)
(* Bounds of the model.                                                    *)
(***************************************************************************)
\* the most tokens of a file in the statistics specification
MaxTokens == 2
\* line counts of the rows given to gen_diff in the diff specification
MaxLineCount == 2
\* the largest positive MAX_LINE_COUNT tried
MaxThreshold == 1

(***************************************************************************)
(* Strings.                                                                *)
(***************************************************************************)
Range(s) == {s[i] : i \in DOMAIN s}

\* ord(c) for the characters the model uses
Ord(c) ==
    CASE c = "\t" -> 9 [] c = "\n" -> 10 [] c = "\f" -> 12 [] c = "\r" -> 13
      [] c = " " -> 32 [] c = "\"" -> 34 [] c = "#" -> 35
      [] c = "'" -> 39 [] c = "+" -> 43 [] c = "-" -> 45 [] c = "." -> 46
      [] c = "/" -> 47 [] c = "0" -> 48 [] c = "1" -> 49 [] c = "2" -> 50
      [] c = "3" -> 51 [] c = "4" -> 52 [] c = "5" -> 53 [] c = "6" -> 54
      [] c = "7" -> 55 [] c = "8" -> 56 [] c = "9" -> 57 [] c = "=" -> 61
      [] c = "_" -> 95
      [] c = "a" -> 97 [] c = "b" -> 98 [] c = "c" -> 99 [] c = "d" -> 100
      [] c = "e" -> 101 [] c = "f" -> 102 [] c = "g" -> 103 [] c = "m" -> 109
      [] c = "n" -> 110 [] c = "p" -> 112 [] c = "t" -> 116 [] c = "x" -> 120 [] c = "y" -> 121

\* str.__lt__: the first differing character decides, a proper prefix is smaller
RECURSIVE StrLess(_, _)
StrLess(s, t) ==
    IF t = <<>> THEN FALSE
    ELSE IF s = <<>> THEN TRUE
    ELSE IF s[1] = t[1] THEN StrLess(Tail(s), Tail(t))
    ELSE Ord(s[1]) < Ord(t[1])

\* str.startswith
StartsWith(s, prefix) ==
    /\ Len(prefix) <= Len(s)
    /\ SubSeq(s, 1, Len(prefix)) = prefix

\* the code points c with chr(c).isspace()
SpaceCodes ==
    (9 .. 13) \cup (28 .. 32) \cup {133, 160, 5760} \cup (8192 .. 8202)
        \cup {8232, 8233, 8239, 8287, 12288}

\* str.isspace of one character: what str.strip() removes
IsSpace(c) == Ord(c) \in SpaceCodes

RECURSIVE LStrip(_)
LStrip(s) == IF s # <<>> /\ IsSpace(s[1]) THEN LStrip(Tail(s)) ELSE s

RECURSIVE RStrip(_)
RStrip(s) ==
    IF s # <<>> /\ IsSpace(s[Len(s)]) THEN RStrip(SubSeq(s, 1, Len(s) - 1)) ELSE s

\* str.strip
Strip(s) == RStrip(LStrip(s))

\* str.split(sep) for a one-character separator
RECURSIVE SplitFrom(_, _, _)
SplitFrom(s, sep, cur) ==
    IF s = <<>> THEN <<cur>>
    ELSE IF s[1] = sep THEN <<cur>> \o SplitFrom(Tail(s), sep, <<>>)
    ELSE SplitFrom(Tail(s), sep, Append(cur, s[1]))

Split(s, sep) == SplitFrom(s, sep, <<>>)

\* sep.join(parts)
RECURSIVE Join(_, _)
Join(parts, sep) ==
    IF parts = <<>> THEN <<>>
    ELSE IF Len(parts) = 1 THEN parts[1]
    ELSE parts[1] \o <<sep>> \o Join(Tail(parts), sep)

\* seq[:n]
Take(s, n) == SubSeq(s, 1, IF Len(s) < n THEN Len(s) ELSE n)

Digits == <<"0", "1", "2", "3", "4", "5", "6", "7", "8", "9">>

RECURSIVE NatToStr(_)
NatToStr(n) ==
    IF n < 10 THEN <<Digits[n + 1]>>
    ELSE NatToStr(n \div 10) \o <<Digits[(n % 10) + 1]>>

\* str(n) for an int
IntToStr(n) == IF n < 0 THEN <<"-">> \o NatToStr(-n) ELSE NatToStr(n)

DigitValue(c) == CHOOSE d \in 0..9 : Digits[d + 1] = c

RECURSIVE DigitsToNat(_, _)
DigitsToNat(s, acc) ==
    IF s = <<>> THEN acc ELSE DigitsToNat(Tail(s), 10 * acc + DigitValue(s[1]))

\* the white space int() skips at both ends: that of str.strip() but for
\* the four separators 28 .. 31
IsIntSpace(c) == Ord(c) \in SpaceCodes \ (28 .. 31)

RECURSIVE IntLStrip(_)
IntLStrip(s) == IF s # <<>> /\ IsIntSpace(s[1]) THEN IntLStrip(Tail(s)) ELSE s

RECURSIVE IntRStrip(_)
IntRStrip(s) ==
    IF s # <<>> /\ IsIntSpace(s[Len(s)])
    THEN IntRStrip(SubSeq(s, 1, Len(s) - 1))
    ELSE s

\* the literal int() reads: its argument without the surrounding white space
IntText(s) == IntRStrip(IntLStrip(s))

\* the literal after its optional sign
IntBody(s) ==
    LET t == IntText(s)
    IN  IF t # <<>> /\ t[1] \in {"+", "-"} THEN Tail(t) ELSE t

\* whether int(s) returns: white space, an optional sign, then digits with
\* single underscores between them, then white space
IsIntLiteral(s) ==
    LET body == IntBody(s)
    IN  /\ body # <<>>
        /\ Range(body) \subseteq Range(Digits) \cup {"_"}
        /\ body[1] # "_"
        /\ body[Len(body)] # "_"
        /\ \A i \in 1 .. Len(body) - 1 : ~(body[i] = "_" /\ body[i + 1] = "_")

\* int(s), where it returns
ParseInt(s) ==
    LET n == DigitsToNat(SelectSeq(IntBody(s), LAMBDA c : c # "_"), 0)
    IN  IF IntText(s)[1] = "-" THEN 0 - n ELSE n

RECURSIVE Spaces(_)
Spaces(n) == IF n <= 0 THEN <<>> ELSE <<" ">> \o Spaces(n - 1)

\* format(s, "<width>s"): left-aligned, padded to the width, never cut
PadRight(s, width) == s \o Spaces(width - Len(s))

\* format(n, "<width>d"): right-aligned, padded to the width, never cut
PadLeft(s, width) == Spaces(width - Len(s)) \o s

(***************************************************************************)
(* Fractions: the value of a float density.                                *)
(***************************************************************************)
Abs(n) == IF n < 0 THEN 0 - n ELSE n

RECURSIVE Gcd(_, _)
Gcd(a, b) == IF b = 0 THEN a ELSE Gcd(b, a % b)

\* num / den in lowest terms, den > 0
Frac(num, den) ==
    LET g == Gcd(Abs(num), den)
    IN  <<num \div g, den \div g>>

FracZero == Frac(0, 1)

FracSub(p, q) == Frac(p[1] * q[2] - q[1] * p[2], p[2] * q[2])

FracLess(p, q) == p[1] * q[2] < q[1] * p[2]

(***************************************************************************)
(* Tokens.  A token is what tokenize.generate_tokens yields: type, string, *)
(* start and end as <<row, col>>, and line, the physical line(s) it is on. *)
(***************************************************************************)
TOKEN_WHITELIST == {"OP", "NAME", "NUMBER", "STRING"}

TripleQuote == <<"\"", "\"", "\"">>

\* is_docstring without its test of the line
is_docstring_ignoring_line(tok) ==
    /\ tok.type = "STRING"
    /\ StartsWith(tok.string, TripleQuote)

is_docstring(tok) ==
    /\ tok.type = "STRING"
    /\ StartsWith(tok.string, TripleQuote)
    /\ StartsWith(Strip(tok.line), TripleQuote)

Tok(type, string, start, end, line) ==
    [type |-> type, string |-> string, start |-> start, end |-> end, line |-> line]

(***************************************************************************)
(* The tokens of the source text                                           *)
(*     1    [3 double quotes]d[3 double quotes]   (indented by two spaces) *)
(*     2  x = 1                                                            *)
(*     3  y = [3 double quotes]a                                           *)
(*     4  b[3 double quotes]                                               *)
(*     5  [3 double quotes]m                                               *)
(*     6  n[3 double quotes]                                               *)
(*     7  #c                                                               *)
(*     8  [3 single quotes]d[3 single quotes]                              *)
(*     9    [3 double quotes]t[3 double quotes]   (indented by one tab)    *)
(* as the tokenizer reports them, in source order.                         *)
(***************************************************************************)
LineDoc == <<" ", " ">> \o TripleQuote \o <<"d">> \o TripleQuote \o <<"\n">>
LineAssign == <<"x", " ", "=", " ", "1", "\n">>
LineAssignY == <<"y", " ", "=", " ">> \o TripleQuote \o <<"a", "\n">>
LineStr == <<"y", " ", "=", " ">> \o TripleQuote \o <<"a", "\n", "b">> \o TripleQuote \o <<"\n">>
LineDocML == TripleQuote \o <<"m", "\n", "n">> \o TripleQuote \o <<"\n">>
LineComment == <<"#", "c", "\n">>
LineSingle == <<"'", "'", "'", "d", "'", "'", "'", "\n">>
LineDocTab == <<"\t">> \o TripleQuote \o <<"t">> \o TripleQuote \o <<"\n">>

TokDoc == Tok("STRING", TripleQuote \o <<"d">> \o TripleQuote, <<1, 2>>, <<1, 9>>, LineDoc)
TokName == Tok("NAME", <<"x">>, <<2, 0>>, <<2, 1>>, LineAssign)
TokOp == Tok("OP", <<"=">>, <<2, 2>>, <<2, 3>>, LineAssign)
TokNumber == Tok("NUMBER", <<"1">>, <<2, 4>>, <<2, 5>>, LineAssign)
TokNameY == Tok("NAME", <<"y">>, <<3, 0>>, <<3, 1>>, LineAssignY)
TokOpY == Tok("OP", <<"=">>, <<3, 2>>, <<3, 3>>, LineAssignY)
TokStr == Tok("STRING", TripleQuote \o <<"a", "\n", "b">> \o TripleQuote, <<3, 4>>, <<4, 4>>, LineStr)
TokDocML == Tok("STRING", TripleQuote \o <<"m", "\n", "n">> \o TripleQuote, <<5, 0>>, <<6, 4>>, LineDocML)
TokComment == Tok("COMMENT", <<"#", "c">>, <<7, 0>>, <<7, 2>>, LineComment)
TokSingle == Tok("STRING", <<"'", "'", "'", "d", "'", "'", "'">>, <<8, 0>>, <<8, 7>>, LineSingle)
TokDocTab == Tok("STRING", TripleQuote \o <<"t">> \o TripleQuote, <<9, 1>>, <<9, 8>>, LineDocTab)

\* in source order
TokenCatalog ==
    <<TokDoc, TokName, TokOp, TokNumber, TokNameY, TokOpY, TokStr, TokDocML,
      TokComment, TokSingle, TokDocTab>>

\* the token sequences of at most n tokens chosen from the catalog, in source order
TokenSeqs(n) ==
    LET Pick(S) == SelectSeq(TokenCatalog, LAMBDA t : t \in S)
    IN  {Pick(S) : S \in {T \in SUBSET Range(TokenCatalog) : Cardinality(T) <= n}}

\* a file: err is the exception reading or tokenizing it raises, or "none"
SourceFile(tokens) == [err |-> "none", tokens |-> tokens]
BadFile(err) == [err |-> err, tokens |-> <<>>]

\* the exceptions lines 52-53 raise, named by class.  From the file's
\* text: bytes that do not decode (UnicodeDecodeError), a coding cookie
\* naming no codec (SyntaxError), a codec that is not a text encoding
\* (LookupError) or a codec that rejects the text (UnicodeError), an
\* unfinished string or bracket (TokenError), an inconsistent dedent
\* (IndentationError).  From opening it: a directory whose name ends in .py
\* (IsADirectoryError), a dangling link or a file removed since rglob
\* yielded it (FileNotFoundError), a file that may not be read
\* (PermissionError), and every other failure of the operating system,
\* such as a loop of links (OSError).
ScanErrors ==
    {"UnicodeDecodeError", "SyntaxError", "LookupError", "UnicodeError",
     "TokenError", "IndentationError", "IsADirectoryError",
     "FileNotFoundError", "PermissionError", "OSError"}

(***************************************************************************)
(* gen_stats, one file: the body of its loop.                              *)
(***************************************************************************)
\* pathlib: base / rel, where Path(".") / rel is rel
FullPath(dir, rel) == IF dir = <<".">> THEN rel ELSE dir \o <<"/">> \o rel

\* filepath.relative_to(base_path).as_posix()
RelativeTo(path, dir) ==
    IF dir = <<".">> THEN path ELSE SubSeq(path, Len(dir) + 2, Len(path))

\* line 53: the whitelisted tokens that are not docstrings
Retained(tokens) ==
    SelectSeq(tokens, LAMBDA tok : tok.type \in TOKEN_WHITELIST /\ ~is_docstring(tok))

\* line 55 counting only the line a token starts on
covered_lines_start_only(tokens) == {tokens[i].start[1] : i \in DOMAIN tokens}

\* line 55: every line from a token's start row to its end row
covered_lines(tokens) ==
    UNION {tokens[i].start[1] .. tokens[i].end[1] : i \in DOMAIN tokens}

\* line 59
density_of(token_count, line_count) == Frac(token_count, line_count)

\* lines 53-60: stats after the loop body ran on a file that tokenizes
stats_after(acc, filepath, dir, file) ==
    LET tokens == Retained(file.tokens)
        token_count == Len(tokens)
        line_count == Cardinality(covered_lines(tokens))
    IN  IF line_count > 0
        THEN Append(acc, <<RelativeTo(filepath, dir), line_count,
                           density_of(token_count, line_count)>>)
        ELSE acc

(***************************************************************************)
(* gen_diff.                                                               *)
(***************************************************************************)
Keys(rows) == {rows[i][1] : i \in DOMAIN rows}

\* {row[0]: row for row in rows}: a later row replaces an earlier one
DictOf(rows) ==
    [k \in Keys(rows) |->
        rows[CHOOSE i \in DOMAIN rows :
                /\ rows[i][1] = k
                /\ \A j \in DOMAIN rows : rows[j][1] = k => j <= i]]

\* dict.get(key, default)
Get(map, key, default) == IF key \in DOMAIN map THEN map[key] ELSE default

RECURSIVE SortedStrs(_)
\* sorted(S) for a set of str
SortedStrs(S) ==
    IF S = {} THEN <<>>
    ELSE LET m == CHOOSE x \in S : \A y \in S \ {x} : StrLess(x, y)
         IN  <<m>> \o SortedStrs(S \ {m})

RECURSIVE InsertionOrder(_, _)
\* the keys of rows in order of first appearance, after those of seen
InsertionOrder(rows, seen) ==
    IF rows = <<>> THEN <<>>
    ELSE IF rows[1][1] \in seen THEN InsertionOrder(Tail(rows), seen)
    ELSE <<rows[1][1]>> \o InsertionOrder(Tail(rows), seen \cup {rows[1][1]})

\* line 81 without sorted: the names in the order the rows came in
diff_order_unsorted(old_rows, new_rows) ==
    InsertionOrder(old_rows \o new_rows, {})

\* line 79 and line 81: sorted(set(old_map) | set(new_map))
diff_order(old_rows, new_rows) == SortedStrs(Keys(old_rows) \cup Keys(new_rows))

\* line 86 testing the line delta alone
changed_lines_only(line_delta, density_delta) == line_delta # 0

\* line 86
changed(line_delta, density_delta) == line_delta # 0 \/ density_delta # FracZero

\* lines 82-87 with the old side of a new file defaulted to the new row
diff_row_old_from_new(fname, old_map, new_map) ==
    LET new_row == Get(new_map, fname, <<fname, 0, FracZero>>)
        old_row == Get(old_map, fname, new_row)
    IN  <<fname, new_row[2], new_row[2] - old_row[2], new_row[3],
          FracSub(new_row[3], old_row[3])>>

\* lines 82-87: the row of one file name
diff_row(fname, old_map, new_map) ==
    LET old_row == Get(old_map, fname, <<fname, 0, FracZero>>)
        new_row == Get(new_map, fname, <<fname, 0, FracZero>>)
        line_delta == new_row[2] - old_row[2]
        density_delta == FracSub(new_row[3], old_row[3])
    IN  <<fname, new_row[2], line_delta, new_row[3], density_delta>>

RECURSIVE diff_rows(_, _, _)
\* lines 81-87: the loop over the file names
diff_rows(names, old_map, new_map) ==
    IF names = <<>> THEN <<>>
    ELSE LET row == diff_row(names[1], old_map, new_map)
             rest == diff_rows(Tail(names), old_map, new_map)
         IN  IF changed(row[3], row[5]) THEN <<row>> \o rest ELSE rest

gen_diff(old_rows, new_rows) ==
    diff_rows(diff_order(old_rows, new_rows), DictOf(old_rows), DictOf(new_rows))

\* line 101
display_diff(diff) == IF diff > 0 THEN <<"+">> \o IntToStr(diff) ELSE IntToStr(diff)

(***************************************************************************)
(* main: what it computes from table.                                      *)
(***************************************************************************)
RECURSIVE SumField(_, _)
\* sum(r[i] for r in rows), with i counted from 1
SumField(rows, i) == IF rows = <<>> THEN 0 ELSE rows[1][i] + SumField(Tail(rows), i)

RECURSIVE InsertDesc(_, _)
\* row put after every row whose key r[1] is at least its own
InsertDesc(sorted, row) ==
    IF sorted = <<>> THEN <<row>>
    ELSE IF sorted[1][2] >= row[2] THEN <<sorted[1]>> \o InsertDesc(Tail(sorted), row)
    ELSE <<row>> \o sorted

RECURSIVE SortDescFrom(_, _)
SortDescFrom(rows, sorted) ==
    IF rows = <<>> THEN sorted
    ELSE SortDescFrom(Tail(rows), InsertDesc(sorted, rows[1]))

\* line 126: sorted(table, key=lambda r: r[1], reverse=True), a stable sort
table_sorted_of(rows) == SortDescFrom(rows, <<>>)

\* line 138: "/".join(r[0].split("/")[:2])
dir_name_of(path) == Join(Take(Split(path, "/"), 2), "/")

\* the order of the tuples (dir_name, line_count, density)
GroupLess(g, h) ==
    \/ StrLess(g[1], h[1])
    \/ g[1] = h[1] /\ g[2] < h[2]
    \/ g[1] = h[1] /\ g[2] = h[2] /\ FracLess(g[3], h[3])

RECURSIVE InsertAsc(_, _)
InsertAsc(sorted, g) ==
    IF sorted = <<>> THEN <<g>>
    ELSE IF GroupLess(g, sorted[1]) THEN <<g>> \o sorted
    ELSE <<sorted[1]>> \o InsertAsc(Tail(sorted), g)

RECURSIVE SortAscFrom(_, _)
SortAscFrom(gs, sorted) ==
    IF gs = <<>> THEN sorted
    ELSE SortAscFrom(Tail(gs), InsertAsc(sorted, gs[1]))

\* line 138 without sorted
groups_unsorted(rows) ==
    [i \in DOMAIN rows |-> <<dir_name_of(rows[i][1]), rows[i][2], rows[i][3]>>]

\* line 138: the sorted list of (dir_name, line_count, density)
groups_of(rows) ==
    SortAscFrom([i \in DOMAIN rows |->
                    <<dir_name_of(rows[i][1]), rows[i][2], rows[i][3]>>], <<>>)

\* the length of the run of equal keys groups starts with
RECURSIVE RunLength(_, _)
RunLength(groups, key) ==
    IF groups = <<>> \/ groups[1][1] # key THEN 0
    ELSE 1 + RunLength(Tail(groups), key)

RECURSIVE group_totals(_)
\* lines 139-140: itertools.groupby on the key, each run of equal keys summed
group_totals(groups) ==
    IF groups = <<>> THEN <<>>
    ELSE LET n == RunLength(groups, groups[1][1])
         IN  <<<<groups[1][1], SumField(SubSeq(groups, 1, n), 2)>>>>
             \o group_totals(SubSeq(groups, n + 1, Len(groups)))

(***************************************************************************)
(* Standard output: a sequence of printed items.  A fixed text is named by *)
(* its kind; body is the text that varies.  The table is what tabulate is  *)
(* given.                                                                  *)
(***************************************************************************)
Printed(kind, body) == [kind |-> kind, body |-> body]

NoChangesMessage == Printed("no_changes", <<>>)

DiffHeaders == <<"File", "Lines", "Diff", "Tokens/Line", "Token Density Diff">>
StatHeaders == <<"File", "Lines", "Tokens/Line">>

\* line 141: f"{dir_name:30s} : {total:6d}"
group_line(dir_name, total) ==
    PadRight(dir_name, 30) \o <<" ", ":", " ">> \o PadLeft(IntToStr(total), 6)

\* line 132 taking the new line count of each row
total_delta_of_new_lines(rows) == SumField(rows, 2)

\* line 132: sum(r[2] for r in table)
total_delta_of(rows) == SumField(rows, 3)

\* lines 129-134
diff_report(rows) ==
    << Printed("changes", <<>>),
       Printed("fence", <<>>),
       Printed("table", [headers |-> DiffHeaders, rows |-> table_sorted_of(rows)]),
       Printed("total_changed", display_diff(total_delta_of(rows))),
       Printed("fence", <<>>) >>

\* line 142: sum(r[1] for r in table)
total_lines_of(rows) == SumField(rows, 2)

\* lines 136-143
stat_report(rows) ==
    LET totals == group_totals(groups_of(table_sorted_of(rows)))
    IN  << Printed("table", [headers |-> StatHeaders, rows |-> table_sorted_of(rows)]) >>
        \o [i \in DOMAIN totals |-> Printed("group", group_line(totals[i][1], totals[i][2]))]
        \o << Printed("total_count", IntToStr(total_lines_of(rows))) >>

\* os.getenv("MAX_LINE_COUNT", default)
GetEnv(default) == IF env.set THEN env.value ELSE default

\* an exception that ends the run: its class, its argument, and the
\* function of size_diff.py its traceback ends in
Raised(type, msg, raised_in) == [type |-> type, msg |-> msg, raised_in |-> raised_in]

NoException == Raised("none", <<>>, "none")

\* f"OVER {max_count} LINES"
OverMessage(max_count) ==
    <<"O", "V", "E", "R", " ">> \o IntToStr(max_count) \o <<" ", "L", "I", "N", "E", "S">>

\* line 145 comparing with >= in place of <=
within_limit_reversed(max_count, total_lines) ==
    max_count = -1 \/ total_lines >= max_count

\* line 145: the asserted condition
within_limit(max_count, total_lines) ==
    max_count = 0 - 1 \/ total_lines <= max_count

(***************************************************************************)
(* The inputs of a run.                                                    *)
(***************************************************************************)
PathTop == <<"d", ".", "p", "y">>
PathF == <<"d", "/", "e", "/", "f", ".", "p", "y">>
PathG == <<"d", "/", "e", "/", "g", ".", "p", "y">>

\* the relative paths a tree may hold
PathCatalog == {PathTop, PathF, PathG}

\* the relative paths of the two trees of a diff run
DiffPaths == {PathTop, PathF}

Cwd == <<".">>
DirA == <<"a">>
DirB == <<"b">>

\* x = 1: one line, three tokens
FileDense == SourceFile(<<TokName, TokOp, TokNumber>>)
\* a docstring, then x: one line, one token
FileSparse == SourceFile(<<TokDoc, TokName>>)
\* a docstring and a comment: no retained token
FileBlank == SourceFile(<<TokDoc, TokComment>>)

\* a string of two lines assigned to y: two lines, three tokens
FileLong == SourceFile(<<TokNameY, TokOpY, TokStr>>)

\* the files of the trees main is run on
FileCatalog ==
    {FileDense, FileSparse, FileLong, FileBlank}
        \cup {BadFile(e) : e \in ScanErrors}

\* the trees over the paths in P with files from F
Trees(P, F) == UNION {[S -> F] : S \in SUBSET P}

EnvUnset == [set |-> FALSE, value |-> <<>>]
EnvSet(n) == [set |-> TRUE, value |-> IntToStr(n)]

EnvText(value) == [set |-> TRUE, value |-> value]

\* MAX_LINE_COUNT: unset, negative, the sentinel, a limit, a limit spelt
\* with white space or an underscore, or no integer
EnvChoices ==
    {EnvUnset, EnvText(<<"x">>), EnvText(<<" ", "1", "\n">>),
     EnvText(<<"1", "_", "0">>), EnvText(<<"1", "_">>)}
        \cup {EnvSet(n) : n \in {0 - 2, 0 - 1} \cup 1..MaxThreshold}

\* MAX_LINE_COUNT of the runs on two trees, which never read it: unset, no
\* integer, negative, a limit
DiffEnvChoices ==
    {EnvUnset, EnvText(<<"x">>)} \cup {EnvSet(n) : n \in {0 - 2} \cup 1..MaxThreshold}

DirsOf(a) == IF a = <<>> THEN {Cwd} ELSE Range(a)

\* the state main starts in, given the inputs
Begin(a, f, e) ==
    /\ args = a
    /\ fs = f
    /\ env = e
    /\ pc = "start"
    /\ base = <<>>
    /\ todo = {}
    /\ stats = <<>>
    /\ old_stats = <<>>
    /\ new_stats = <<>>
    /\ table = <<>>
    /\ out = <<>>
    /\ exc = NoException
    /\ opened = <<>>

\* a run on one tree: no argument, or one
InitSingle ==
    \E a \in {<<>>, <<DirA>>}, e \in EnvChoices :
        \E f \in [DirsOf(a) -> Trees(PathCatalog, FileCatalog)] : Begin(a, f, e)

\* a run on two trees
InitDiff ==
    \E e \in DiffEnvChoices :
        \E f \in [{DirA, DirB} -> Trees(DiffPaths, FileCatalog)] :
            Begin(<<DirA, DirB>>, f, e)

Init == InitSingle \/ InitDiff

(***************************************************************************)
(* main and gen_stats, step by step.                                       *)
(***************************************************************************)
\* gen_stats(Path(dir)) is entered: rglob will yield every file under dir
EnterScan(dir, next_pc) ==
    /\ base' = dir
    /\ todo' = {FullPath(dir, p) : p \in DOMAIN fs[dir]}
    /\ stats' = <<>>
    /\ pc' = next_pc

\* lines 112-114
StartDiff ==
    /\ pc = "start"
    /\ Len(args) = 2
    /\ EnterScan(args[1], "scan_old")
    /\ UNCHANGED <<args, fs, env, old_stats, new_stats, table, out, exc, opened>>

\* lines 117-120
StartSingle ==
    /\ pc = "start"
    /\ Len(args) # 2
    /\ EnterScan(IF args # <<>> THEN args[1] ELSE Cwd, "scan")
    /\ UNCHANGED <<args, fs, env, old_stats, new_stats, table, out, exc, opened>>

Scanning == pc \in {"scan", "scan_old", "scan_new"}

\* lines 51-60: the loop body on a file that reads and tokenizes
ScanFileOk ==
    /\ Scanning
    /\ \E filepath \in todo :
        LET file == fs[base][RelativeTo(filepath, base)]
        IN  /\ file.err = "none"
            /\ todo' = todo \ {filepath}
            /\ opened' = Append(opened, <<base, filepath>>)
            /\ stats' = stats_after(stats, filepath, base, file)
    /\ UNCHANGED <<args, fs, env, pc, base, old_stats, new_stats, table, out, exc>>

\* lines 52-53 with the exception caught and the file skipped
ScanFileFailSkipped ==
    /\ Scanning
    /\ \E filepath \in todo :
        LET file == fs[base][RelativeTo(filepath, base)]
        IN  /\ file.err # "none"
            /\ todo' = todo \ {filepath}
            /\ opened' = Append(opened, <<base, filepath>>)
    /\ UNCHANGED <<args, fs, env, pc, base, stats, old_stats, new_stats, table, out, exc>>

\* lines 51-53: rglob yields the file, tokenize.open or generate_tokens
\* raises, and nothing catches it
ScanFileFail ==
    /\ Scanning
    /\ \E filepath \in todo :
        LET file == fs[base][RelativeTo(filepath, base)]
        IN  /\ file.err # "none"
            /\ todo' = todo \ {filepath}
            /\ opened' = Append(opened, <<base, filepath>>)
            /\ exc' = Raised(file.err, filepath, "gen_stats")
            /\ pc' = "failed"
    /\ UNCHANGED <<args, fs, env, base, stats, old_stats, new_stats, table, out>>

\* line 61 and lines 114-115: the old scan returns, the new scan is entered
EndScanOld ==
    /\ pc = "scan_old"
    /\ todo = {}
    /\ old_stats' = stats
    /\ EnterScan(args[2], "scan_new")
    /\ UNCHANGED <<args, fs, env, new_stats, table, out, exc, opened>>

\* line 61 and line 115
EndScanNew ==
    /\ pc = "scan_new"
    /\ todo = {}
    /\ new_stats' = stats
    /\ pc' = "diff"
    /\ UNCHANGED <<args, fs, env, base, todo, stats, old_stats, table, out, exc, opened>>

\* line 61 and line 120
EndScanSingle ==
    /\ pc = "scan"
    /\ todo = {}
    /\ table' = stats
    /\ pc' = "report"
    /\ UNCHANGED <<args, fs, env, base, todo, stats, old_stats, new_stats, out, exc, opened>>

\* line 116
Diff ==
    /\ pc = "diff"
    /\ table' = gen_diff(old_stats, new_stats)
    /\ pc' = "report"
    /\ UNCHANGED <<args, fs, env, base, todo, stats, old_stats, new_stats, out, exc, opened>>

\* lines 122-124 falling through to the report
ReportEmptyFallsThrough ==
    /\ pc = "report"
    /\ table = <<>>
    /\ out' = out \o <<NoChangesMessage>> \o
              (IF Len(args) = 2 THEN diff_report(table) ELSE stat_report(table))
    /\ pc' = "done"
    /\ UNCHANGED <<args, fs, env, base, todo, stats, old_stats, new_stats, table, exc, opened>>

\* lines 122-124
ReportEmpty ==
    /\ pc = "report"
    /\ table = <<>>
    /\ out' = Append(out, NoChangesMessage)
    /\ pc' = "done"
    /\ UNCHANGED <<args, fs, env, base, todo, stats, old_stats, new_stats, table, exc, opened>>

\* lines 128-134
ReportDiff ==
    /\ pc = "report"
    /\ table # <<>>
    /\ Len(args) = 2
    /\ out' = out \o diff_report(table)
    /\ pc' = "done"
    /\ UNCHANGED <<args, fs, env, base, todo, stats, old_stats, new_stats, table, exc, opened>>

\* lines 135-145
ReportSingle ==
    /\ pc = "report"
    /\ table # <<>>
    /\ Len(args) # 2
    /\ out' = out \o stat_report(table)
    /\ LET raw == GetEnv(<<"-", "1">>)
       IN  IF ~IsIntLiteral(raw)
           THEN exc' = Raised("ValueError", raw, "main") /\ pc' = "failed"
           ELSE IF within_limit(ParseInt(raw), total_lines_of(table))
           THEN exc' = exc /\ pc' = "done"
           ELSE /\ exc' = Raised("AssertionError", OverMessage(ParseInt(raw)), "main")
                /\ pc' = "failed"
    /\ UNCHANGED <<args, fs, env, base, todo, stats, old_stats, new_stats, table, opened>>

Next ==
    \/ StartDiff
    \/ StartSingle
    \/ ScanFileOk
    \/ ScanFileFail
    \/ EndScanOld
    \/ EndScanNew
    \/ EndScanSingle
    \/ Diff
    \/ ReportEmpty
    \/ ReportDiff
    \/ ReportSingle

Spec == Init /\ [][Next]_vars

(***************************************************************************)
(* gen_stats alone: one scan of a tree whose files are any choice of at    *)
(* most MaxTokens tokens of the catalog, or fail to tokenize.              *)
(***************************************************************************)
StatsPaths == {PathTop, PathF}

StatsFiles ==
    {SourceFile(ts) : ts \in TokenSeqs(MaxTokens)}
        \cup {BadFile(e) : e \in ScanErrors}

InitStats ==
    \E f \in [{DirA} -> Trees(StatsPaths, StatsFiles)] : Begin(<<DirA>>, f, EnvUnset)

NextStats ==
    \/ StartSingle
    \/ ScanFileOk
    \/ ScanFileFail
    \/ EndScanSingle

SpecStats == InitStats /\ [][NextStats]_vars

(***************************************************************************)
(* gen_diff alone: applied to two stat collections with unique paths, rows *)
(* as gen_stats makes them (line_count > 0, density = tokens / lines).     *)
(***************************************************************************)
StatRows(path) ==
    {<<path, n, density_of(t, n)>> : n \in 1..MaxLineCount, t \in {1, 2}}

RECURSIVE SeqOfMap(_, _)
\* the rows of a map, in the order of names
SeqOfMap(map, names) ==
    IF names = <<>> THEN <<>>
    ELSE IF names[1] \in DOMAIN map THEN <<map[names[1]]>> \o SeqOfMap(map, Tail(names))
    ELSE SeqOfMap(map, Tail(names))

\* the stat collections over PathCatalog, one for every choice of rows
StatMaps ==
    UNION {{m \in [S -> UNION {StatRows(p) : p \in S}] : \A p \in S : m[p][1] = p}
              : S \in SUBSET PathCatalog}

\* main is about to call gen_diff(o, n)
BeforeDiff(o, n) ==
    /\ args = <<DirA, DirB>>
    /\ fs = [d \in {DirA, DirB} |-> <<>>]
    /\ env = EnvUnset
    /\ pc = "diff"
    /\ base = DirB
    /\ todo = {}
    /\ stats = <<>>
    /\ old_stats = o
    /\ new_stats = n
    /\ table = <<>>
    /\ out = <<>>
    /\ exc = NoException
    /\ opened = <<>>

InitGenDiff ==
    \E o \in StatMaps, n \in StatMaps :
        BeforeDiff(SeqOfMap(o, <<PathG, PathTop, PathF>>),
                   SeqOfMap(n, <<PathF, PathG, PathTop>>))

NextGenDiff == Diff

SpecGenDiff == InitGenDiff /\ [][NextGenDiff]_vars

(***************************************************************************)
(* gen_diff alone, on collections whose rows come in every order: each     *)
(* file has one line, of one token or of two.                              *)
(***************************************************************************)
\* every arrangement of the rows of a collection
Arrangements(rows) ==
    {[i \in DOMAIN rows |-> rows[f[i]]] : f \in Permutations(DOMAIN rows)}

\* the collection of one-line files with the given token counts
OneLineStats(token_count) ==
    SeqOfMap([p \in DOMAIN token_count |-> <<p, 1, density_of(token_count[p], 1)>>],
             <<PathTop, PathF, PathG>>)

OrderedStats ==
    UNION {UNION {Arrangements(OneLineStats(m)) : m \in [S -> {1, 2}]}
              : S \in SUBSET PathCatalog}

InitGenDiffOrder ==
    \E o \in OrderedStats, n \in OrderedStats : BeforeDiff(o, n)

SpecGenDiffOrder == InitGenDiffOrder /\ [][NextGenDiff]_vars

(***************************************************************************)
(* What the properties below read off a state.                             *)
(***************************************************************************)
\* gen_diff has returned into table
DiffDone == Len(args) = 2 /\ pc \in {"report", "done"}

\* the row of path p in a collection with unique paths
RowAt(rows, p) == rows[CHOOSE i \in DOMAIN rows : rows[i][1] = p]

Has(rows, p) == \E i \in DOMAIN rows : rows[i][1] = p

\* line_count and density of p in a collection, 0 and 0.0 where it has no row
LinesIn(rows, p) == IF Has(rows, p) THEN RowAt(rows, p)[2] ELSE 0
DensityIn(rows, p) == IF Has(rows, p) THEN RowAt(rows, p)[3] ELSE <<0, 1>>

\* how many rows of table are about p
RowCount(p) == Cardinality({i \in DOMAIN table : table[i][1] = p})

\* fraction d is fraction n minus fraction o, by cross-multiplication
IsDifference(d, n, o) ==
    d[1] * n[2] * o[2] = (n[1] * o[2] - o[1] * n[2]) * d[2]

\* C1: gen_diff holds exactly one row for every path of either collection
\* whose line count or density differs between old and new (a missing side
\* counting as 0 and 0.0), and no row for any other path: none for a path
\* with both deltas zero, none for a path in neither collection, none twice.
C1_DiffCompleteness ==
    DiffDone =>
        /\ \A p \in PathCatalog :
            IF /\ Has(old_stats, p) \/ Has(new_stats, p)
               /\ \/ LinesIn(new_stats, p) # LinesIn(old_stats, p)
                  \/ DensityIn(new_stats, p) # DensityIn(old_stats, p)
            THEN RowCount(p) = 1
            ELSE RowCount(p) = 0
        /\ \A i \in DOMAIN table :
            Has(old_stats, table[i][1]) \/ Has(new_stats, table[i][1])

\* a diff with a row kept for its density alone, a file left out as
\* unchanged, and a path in neither collection
C1_Witness ==
    /\ DiffDone
    /\ \E p \in PathCatalog :
        /\ Has(old_stats, p) /\ Has(new_stats, p)
        /\ RowAt(old_stats, p) = RowAt(new_stats, p)
    /\ \E i \in DOMAIN table :
        /\ table[i][3] = 0
        /\ table[i][5] # <<0, 1>>
        /\ Has(old_stats, table[i][1])
    /\ \E p \in PathCatalog : ~Has(old_stats, p) /\ ~Has(new_stats, p)

\* C2: a path only in new has a row with new_line_count and line_delta both
\* new.line_count and new_density and density_delta both new.density; a path
\* only in old has a row with new_line_count 0, new_density 0, line_delta
\* -old.line_count and density_delta -old.density; a row of a path on both
\* sides has line_delta new.line_count - old.line_count and density_delta
\* new.density - old.density.
C2_RowFields ==
    DiffDone =>
        \A p \in PathCatalog :
            LET o == RowAt(old_stats, p)
                n == RowAt(new_stats, p)
            IN  /\ (Has(new_stats, p) /\ ~Has(old_stats, p)) =>
                    \E i \in DOMAIN table : table[i] = <<p, n[2], n[2], n[3], n[3]>>
                /\ (Has(old_stats, p) /\ ~Has(new_stats, p)) =>
                    \E i \in DOMAIN table :
                        table[i] = <<p, 0, 0 - o[2], <<0, 1>>, <<0 - o[3][1], o[3][2]>> >>
                /\ (Has(old_stats, p) /\ Has(new_stats, p)) =>
                    \A i \in DOMAIN table :
                        table[i][1] = p =>
                            /\ table[i][2] = n[2]
                            /\ table[i][3] = n[2] - o[2]
                            /\ table[i][4] = n[3]
                            /\ IsDifference(table[i][5], n[3], o[3])

\* a diff of an added file, a removed file and a file changed on both sides
C2_Witness ==
    /\ DiffDone
    /\ \E p \in PathCatalog : Has(new_stats, p) /\ ~Has(old_stats, p)
    /\ \E p \in PathCatalog : Has(old_stats, p) /\ ~Has(new_stats, p)
    /\ \E p \in PathCatalog :
        /\ Has(old_stats, p) /\ Has(new_stats, p)
        /\ \E i \in DOMAIN table :
            table[i][1] = p /\ table[i][3] # 0 /\ table[i][5][1] < 0

\* C10: the rows of gen_diff are in strictly ascending order of path, as
\* Python orders str, and every arrangement of the rows of old and of new
\* gives the same sequence of rows.
C10_SortedAndOrderFree ==
    DiffDone =>
        /\ \A i, j \in DOMAIN table :
            i < j =>
                /\ StrLess(table[i][1], table[j][1])
                /\ <<table[i][1], table[j][1]>> \in
                       {<<PathTop, PathF>>, <<PathTop, PathG>>, <<PathF, PathG>>}
        /\ pc = "report" =>
            \A o \in Arrangements(old_stats), n \in Arrangements(new_stats) :
                gen_diff(o, n) = table

\* three rows out of collections that came in another order than by path
C10_Witness ==
    /\ DiffDone
    /\ Len(table) = 3
    /\ Len(old_stats) = 3
    /\ StrLess(old_stats[2][1], old_stats[1][1])
    /\ Len(new_stats) >= 2
    /\ new_stats[1][1] # table[1][1]

(***************************************************************************)
(* gen_stats.                                                              *)
(***************************************************************************)
\* the one scan of a run on one tree has returned into table
StatsDone == Len(args) # 2 /\ pc = "report"

\* token tok lies on line ln
Covers(tok, ln) == tok.start[1] <= ln /\ ln <= tok.end[1]

\* C6: gen_stats holds exactly one row for every file found whose retained
\* tokens (whitelisted type, not a docstring) lie on at least one line, and
\* no row for any other file; the row's line_count is the number of distinct
\* lines its retained tokens lie on, each token lying on every line from its
\* first to its last, so it is positive; its density is the number of
\* retained tokens divided by line_count.
C6_StatsRows ==
    StatsDone =>
        \A p \in PathCatalog :
            LET tokens == fs[base][p].tokens
                kept == {i \in DOMAIN tokens :
                            /\ tokens[i].type \in {"OP", "NAME", "NUMBER", "STRING"}
                            /\ ~is_docstring(tokens[i])}
                lines == {ln \in 1..10 : \E i \in kept : Covers(tokens[i], ln)}
            IN  IF p \in DOMAIN fs[base] /\ lines # {}
                THEN /\ RowCount(p) = 1
                     /\ RowAt(table, p)[2] = Cardinality(lines)
                     /\ RowAt(table, p)[2] > 0
                     /\ RowAt(table, p)[3][1] * Cardinality(lines)
                            = Cardinality(kept) * RowAt(table, p)[3][2]
                ELSE RowCount(p) = 0

\* a tree of a file without a retained token and a file of two tokens, one
\* of them on two lines: one row, of three lines and density 2/3
C6_Witness ==
    /\ StatsDone
    /\ DOMAIN fs[base] = {PathTop, PathF}
    /\ fs[base][PathTop].tokens = <<TokDoc, TokComment>>
    /\ fs[base][PathF].tokens = <<TokName, TokStr>>
    /\ table = << <<PathF, 3, <<2, 3>> >> >>

\* the tokens of the catalog that are a statement of their own in three
\* double quotes, and the one such string that is assigned on its line
StandaloneDocstrings == {TokDoc, TokDocML, TokDocTab}
AssignedString == TokStr

\* what a token of the catalog adds to a file's count of tokens and lines
CountedTokens(tokens) ==
    {i \in DOMAIN tokens :
        /\ tokens[i].type \in {"OP", "NAME", "NUMBER", "STRING"}
        /\ tokens[i] \notin StandaloneDocstrings}

CountedLines(tokens) ==
    {ln \in 1..10 : \E i \in CountedTokens(tokens) : Covers(tokens[i], ln)}

\* C7: a token is left out as a docstring exactly when it is a string that
\* starts with three double quotes on a line that, stripped, starts with
\* them: a statement of its own in three double quotes adds nothing to
\* token_count or line_count, and a string in three double quotes assigned
\* to a variable on its line counts as a token and for every line it spans.
C7_DocstringExclusion ==
    StatsDone =>
        \A p \in DOMAIN fs[base] :
            LET tokens == fs[base][p].tokens
                n == Cardinality(CountedTokens(tokens))
                lines == CountedLines(tokens)
            IN  /\ \A i \in DOMAIN tokens :
                    is_docstring(tokens[i]) <=> tokens[i] \in StandaloneDocstrings
                /\ (lines = {}) => RowCount(p) = 0
                /\ (lines # {}) =>
                    /\ RowCount(p) = 1
                    /\ RowAt(table, p)[2] = Cardinality(lines)
                    /\ RowAt(table, p)[3][1] * Cardinality(lines) = n * RowAt(table, p)[3][2]
                /\ (\E i \in DOMAIN tokens : tokens[i] = AssignedString) =>
                    /\ {3, 4} \subseteq lines
                    /\ RowAt(table, p)[2] >= 2

\* a file of a docstring and an assigned string has a row of two lines and
\* one token; a file of two docstrings has no row
C7_Witness ==
    /\ StatsDone
    /\ DOMAIN fs[base] = {PathTop, PathF}
    /\ fs[base][PathTop].tokens = <<TokDoc, TokStr>>
    /\ fs[base][PathF].tokens = <<TokDoc, TokDocML>>
    /\ table = << <<PathTop, 2, <<1, 2>> >> >>

(***************************************************************************)
(* main.                                                                   *)
(***************************************************************************)
\* a scan raised: the run ended on an exception that left gen_stats
ScanFailed == pc = "failed" /\ exc.raised_in = "gen_stats"

\* main is over, and every scan returned
ReportOver == pc \in {"done", "failed"} /\ exc.raised_in # "gen_stats"

\* the printed items of one kind, in order
PrintedOf(kind) == SelectSeq(out, LAMBDA item : item.kind = kind)

RECURSIVE SumSeq(_)
SumSeq(s) == IF s = <<>> THEN 0 ELSE s[1] + SumSeq(Tail(s))

\* C3: in a diff run the printed total of lines changed is the sum of
\* line_count over the rows of the new snapshot minus that sum over the rows
\* of the old snapshot.
C3_TotalChanged ==
    Len(args) = 2 =>
        \A i \in DOMAIN out :
            out[i].kind = "total_changed" =>
                ParseInt(out[i].body) = SumField(new_stats, 2) - SumField(old_stats, 2)

\* a diff printed for a file that is unchanged, so in no row, and a file
\* that was added
C3_Witness ==
    /\ Len(args) = 2
    /\ pc = "done"
    /\ Len(PrintedOf("total_changed")) = 1
    /\ \E p \in DiffPaths :
        /\ Has(old_stats, p) /\ Has(new_stats, p)
        /\ RowAt(old_stats, p) = RowAt(new_stats, p)
    /\ \E p \in DiffPaths : Has(new_stats, p) /\ ~Has(old_stats, p)
    /\ Len(table) = 1

\* the first two segments of a path: the path up to its second slash
FirstTwoSegments(path) ==
    LET slashes == {i \in DOMAIN path : path[i] = "/"}
        second == CHOOSE i \in slashes :
                      Cardinality({j \in slashes : j < i}) = 1
    IN  IF Cardinality(slashes) < 2 THEN path ELSE SubSeq(path, 1, second - 1)

\* the key and the subtotal a printed group line shows
GroupKeyShown(body) == RStrip(SubSeq(body, 1, Len(body) - 9))
GroupTotalShown(body) == ParseInt(LStrip(SubSeq(body, Len(body) - 5, Len(body))))

\* the line counts of the rows of table whose path has the given key
LinesOfGroup(key) ==
    SumSeq([i \in DOMAIN table |->
               IF FirstTwoSegments(table[i][1]) = key THEN table[i][2] ELSE 0])

\* C4: in a run on one tree with at least one row the printed total is the
\* sum of line_count over the rows and the sum of the printed subtotals;
\* every row's key (its first two path segments joined with a slash) is
\* printed exactly once, with the sum of the rows of that key, and the keys
\* are printed in ascending order.
C4_GroupTotals ==
    (Len(args) # 2 /\ ReportOver /\ table # <<>>) =>
        LET groups == PrintedOf("group")
            totals == PrintedOf("total_count")
        IN  /\ Len(totals) = 1
            /\ ParseInt(totals[1].body) = SumField(table, 2)
            /\ ParseInt(totals[1].body)
                   = SumSeq([i \in DOMAIN groups |-> GroupTotalShown(groups[i].body)])
            /\ \A r \in DOMAIN table :
                Cardinality({i \in DOMAIN groups :
                    GroupKeyShown(groups[i].body) = FirstTwoSegments(table[r][1])}) = 1
            /\ \A i \in DOMAIN groups :
                /\ GroupTotalShown(groups[i].body) = LinesOfGroup(GroupKeyShown(groups[i].body))
                /\ \E r \in DOMAIN table :
                    FirstTwoSegments(table[r][1]) = GroupKeyShown(groups[i].body)
            /\ \A i, j \in DOMAIN groups :
                i < j => StrLess(GroupKeyShown(groups[i].body), GroupKeyShown(groups[j].body))

\* three rows in two groups, scanned in an order that parts the two rows of
\* one group, one of them of two lines
C4_Witness ==
    /\ Len(args) # 2
    /\ pc = "done"
    /\ Len(table) = 3
    /\ table[1][1] = PathF /\ table[2][1] = PathTop /\ table[3][1] = PathG
    /\ table[3][2] = 2
    /\ Len(PrintedOf("group")) = 2

\* the environment sets no threshold, or an integer
IntegerThreshold == ~env.set \/ IsIntLiteral(env.value)

\* the threshold the environment sets, -1 where it sets none
Threshold == IF env.set THEN ParseInt(env.value) ELSE 0 - 1

\* C5, as claimed: a run on one tree, the threshold an integer, fails
\* exactly when the threshold is not -1 and the total line count, 0 for a
\* scan without rows, is above it; a diff run never fails on the threshold.
C5_FailsIffOverThreshold ==
    /\ (Len(args) # 2 /\ ReportOver /\ IntegerThreshold) =>
          (pc = "failed" <=> (Threshold # 0 - 1 /\ SumField(table, 2) > Threshold))
    /\ (Len(args) = 2 /\ ReportOver) => pc = "done"

\* C5, amended: a run on one tree, the threshold an integer, fails with the
\* assertion error exactly when the scan has at least one row, the
\* threshold is not -1 and the total line count is above it; a scan without
\* rows ends well under every threshold; a diff run never fails on the
\* threshold.
C5_FailsIffRowsOverThreshold ==
    /\ (Len(args) # 2 /\ ReportOver /\ IntegerThreshold) =>
          ((pc = "failed" /\ exc.type = "AssertionError")
              <=> (table # <<>> /\ Threshold # 0 - 1 /\ SumField(table, 2) > Threshold))
    /\ (Len(args) # 2 /\ ReportOver /\ table = <<>>) => pc = "done"
    /\ (Len(args) = 2 /\ ReportOver) => pc = "done"

\* a run on one tree that failed on a positive threshold below its total
C5_Witness ==
    /\ Len(args) # 2
    /\ pc = "failed"
    /\ exc.type = "AssertionError"
    /\ Threshold >= 1
    /\ SumField(table, 2) > Threshold

\* C8: in both modes, when table is empty, all that is printed is the one
\* no-changes message; the run then ends without an error and does nothing
\* more.
C8_EmptyTable ==
    /\ (pc = "report" /\ table = <<>>) => out = <<>>
    /\ (ReportOver /\ table = <<>>) =>
          /\ out = <<NoChangesMessage>>
          /\ pc = "done"
          /\ exc = NoException
          /\ ~ENABLED Next

\* a diff of two trees with rows and no change between them
C8_Witness ==
    /\ Len(args) = 2
    /\ pc = "done"
    /\ table = <<>>
    /\ old_stats # <<>>
    /\ out = <<NoChangesMessage>>

\* the file that was opened i-th
OpenedFile(i) == fs[opened[i][1]][RelativeTo(opened[i][2], opened[i][1])]

\* C9: when a file fails to read or tokenize in any scan the run ends there
\* with the error: that file is the last one opened, no diff is computed and
\* nothing has been printed; and nothing is printed before every file of
\* every scan has been opened.
C9_ScanFailureAborts ==
    /\ ScanFailed =>
          /\ opened # <<>>
          /\ exc.type = OpenedFile(Len(opened)).err
          /\ out = <<>>
          /\ table = <<>>
          /\ ~ENABLED Next
    /\ \A i \in DOMAIN opened :
          OpenedFile(i).err # "none" => (i = Len(opened) /\ ScanFailed)
    /\ out # <<>> =>
          \A d \in DOMAIN fs : \A p \in DOMAIN fs[d] :
              \E i \in DOMAIN opened : opened[i] = <<d, FullPath(d, p)>>

\* the new scan of a diff run failed on its first file, with another file
\* left unread, after the old scan returned a row
C9_Witness ==
    /\ ScanFailed
    /\ Len(args) = 2
    /\ base = DirB
    /\ Cardinality(DOMAIN fs[DirB]) = 2
    /\ Cardinality(todo) = 1
    /\ old_stats # <<>>
    /\ opened[Len(opened)][1] = DirB

====
